---------------------------- MODULE Spec2Model ----------------------------
(***************************************************************************)
(* A model of YouTube_crawler.py: the crawl pipeline of YouTubeAICrawler   *)
(* (search -> de-duplication -> statistics -> scoring), its pure helpers   *)
(* (_calculate_relevance_score, filter_top_videos) and WeeklyPublisher's   *)
(* _parse_duration and send_email_report.                                  *)
(*                                                                         *)
(* Conventions.  Python strings that the code only compares are TLA+       *)
(* strings; strings the code looks into (titles, keywords, durations) are  *)
(* sequences of one-character strings.  Video identifiers are naturals.    *)
(* Python floats are exact reduced rationals <<numerator, denominator>>.   *)
(* Time is counted in hours.  A Python dict with optional keys is a        *)
(* function whose DOMAIN holds the keys that are present.                  *)
(***************************************************************************)
EXTENDS Integers, Sequences, FiniteSets, TLC

VARIABLES
    pc,             \* position of the running call
    qi,             \* crawl_ai_news: index of the next search query
    all_videos,     \* crawl_ai_news: all_videos
    video_list,     \* crawl_ai_news: video_list (list(unique_videos.values()))
    video_ids,      \* get_video_statistics: its argument
    i,              \* get_video_statistics: loop offset i
    video_stats,    \* get_video_statistics: the result map
    net,            \* outbound API requests and blocking sleeps, in order
    score_calls,    \* identifiers passed to _calculate_relevance_score, in order
    video,          \* _calculate_relevance_score: its argument
    score,          \* _calculate_relevance_score: its result
    videos,         \* filter_top_videos: its argument
    count,          \* filter_top_videos: its count
    top_videos,     \* filter_top_videos: its result
    duration,       \* _parse_duration: its argument
    readable,       \* _parse_duration: its result
    publisher,      \* WeeklyPublisher: smtp_server, email_user, email_password
    recipients,     \* send_email_report: number of recipients
    smtp,           \* send_email_report: calls made on the SMTP session
    email_result    \* send_email_report: its return value

vars == << pc, qi, all_videos, video_list, video_ids, i, video_stats, net,
           score_calls, video, score, videos, count, top_videos, duration,
           readable, publisher, recipients, smtp, email_result >>

crawlVars  == << qi, all_videos, video_list >>
statsVars  == << video_ids, i, video_stats >>
scoreVars  == << video, score >>
filterVars == << videos, count, top_videos >>
durVars    == << duration, readable >>
mailVars   == << publisher, recipients, smtp, email_result >>

-----------------------------------------------------------------------------
(* Generic helpers *)

Min(a, b) == IF a <= b THEN a ELSE b

RECURSIVE GCD(_, _)
GCD(a, b) == IF b = 0 THEN a ELSE GCD(b, a % b)

\* dict.get(key, default)
Get(d, key, default) == IF key \in DOMAIN d THEN d[key] ELSE default

Range(s) == { s[k] : k \in 1..Len(s) }

Max(S) == CHOOSE x \in S : \A y \in S : y <= x

\* the sequence f, held as a tuple of its elements
List(f) == f \o << >>

\* a float, kept exact: the reduced fraction n/d (d > 0)
Rat(n, d) == LET g == GCD(n, d) IN << n \div g, d \div g >>
RAdd(a, b) == Rat(a[1] * b[2] + b[1] * a[2], a[2] * b[2])
RLess(a, b) == a[1] * b[2] < b[1] * a[2]
RZero == Rat(0, 1)

-----------------------------------------------------------------------------
(* Strings as character sequences: str.lower() and the `in` substring test *)

\* the upper-case letters and their lower-case forms
LowerOf ==
    [ A |-> "a", B |-> "b", C |-> "c", D |-> "d", E |-> "e", F |-> "f",
      G |-> "g", H |-> "h", I |-> "i", J |-> "j", K |-> "k", L |-> "l",
      M |-> "m", N |-> "n", O |-> "o", P |-> "p", Q |-> "q", R |-> "r",
      S |-> "s", T |-> "t", U |-> "u", V |-> "v", W |-> "w", X |-> "x",
      Y |-> "y", Z |-> "z" ]

LowerChar(c) == IF c \in DOMAIN LowerOf THEN LowerOf[c] ELSE c

Lower(s) == List([k \in 1..Len(s) |-> LowerChar(s[k])])

\* needle in haystack
Contains(haystack, needle) ==
    \E off \in 0..(Len(haystack) - Len(needle)) :
        \A k \in 1..Len(needle) : haystack[off + k] = needle[k]

-----------------------------------------------------------------------------
(* YouTubeAICrawler.__init__ *)

ai_keywords ==
  << <<"a","r","t","i","f","i","c","i","a","l"," ","i","n","t","e","l","l","i","g","e","n","c","e">>,
     <<"A","I"," ","n","e","w","s">>,
     <<"m","a","c","h","i","n","e"," ","l","e","a","r","n","i","n","g">>,
     <<"d","e","e","p"," ","l","e","a","r","n","i","n","g">>,
     <<"n","e","u","r","a","l"," ","n","e","t","w","o","r","k","s">>,
     <<"O","p","e","n","A","I">>,
     <<"C","h","a","t","G","P","T">>,
     <<"G","P","T">>,
     <<"L","L","M">>,
     <<"l","a","r","g","e"," ","l","a","n","g","u","a","g","e"," ","m","o","d","e","l">>,
     <<"A","I"," ","b","r","e","a","k","t","h","r","o","u","g","h">>,
     <<"A","I"," ","d","e","v","e","l","o","p","m","e","n","t">>,
     <<"A","I"," ","r","e","s","e","a","r","c","h">>,
     <<"g","e","n","e","r","a","t","i","v","e"," ","A","I">>,
     <<"c","o","m","p","u","t","e","r"," ","v","i","s","i","o","n">>,
     <<"n","a","t","u","r","a","l"," ","l","a","n","g","u","a","g","e"," ","p","r","o","c","e","s","s","i","n","g">>,
     <<"N","L","P">>,
     <<"A","I"," ","e","t","h","i","c","s">>,
     <<"A","I"," ","r","e","g","u","l","a","t","i","o","n">>,
     <<"A","I"," ","s","t","a","r","t","u","p">>,
     <<"A","I"," ","c","o","m","p","a","n","y">>,
     <<"A","I"," ","t","e","c","h","n","o","l","o","g","y">> >>

ai_channels ==
    << "Two Minute Papers", "Yannic Kilcher", "AI Explained",
       "Machine Learning Street Talk", "Lex Fridman", "The AI Advantage",
       "AI Coffee Break", "DeepMind", "OpenAI",
       "Artificial Intelligence News" >>

-----------------------------------------------------------------------------
(* The environment: wall clock and the API's possible answers *)

\* datetime.now(), in hours
Now == 2400

\* the titles videos can carry
Titles ==
  << <<"O","p","e","n","A","I"," ","C","h","a","t","G","P","T"," ","n","e","w","s">>,
     <<"A","I"," ","n","e","w","s",":"," ","L","L","M">>,
     <<"C","o","o","k","i","n","g"," ","p","a","s","t","a">>,
     <<"D","e","e","p"," ","L","e","a","r","n","i","n","g">>,
     <<"g","p","t"," ","v","s"," ","G","p","t">>,
     <<"G","e","n","e","r","a","t","i","v","e"," ","A","I"," ","r","e","s","e","a","r","c","h"," ","o","n"," ","N","L","P">> >>

ChannelNames == << "Two Minute Papers", "Some Vlog", "OpenAI", "openai" >>

\* publishedAt values: a parseable timestamp (hours) or an unparseable string
Timestamp(h) == [valid |-> TRUE, hours |-> h]
BadTimestamp == [valid |-> FALSE, hours |-> 0]

\* ages in hours around the 2-day and 7-day boundaries; -1 is a timestamp
\* slightly in the future
Ages == << 0, 47, 71, 72, 191, 192, -1, 1000 >>

Pick(menu, n) == menu[(n % Len(menu)) + 1]


-----------------------------------------------------------------------------
(* YouTubeAICrawler._calculate_relevance_score *)

\* sum(1 for keyword in self.ai_keywords if keyword.lower() in title_lower)
\* keyword.lower() for each keyword of self.ai_keywords
keywords_lower == List([k \in 1..Len(ai_keywords) |-> Lower(ai_keywords[k])])

keyword_matches(title) ==
    LET title_lower == Lower(title)
    IN  Cardinality({ k \in 1..Len(keywords_lower) :
                        Contains(title_lower, keywords_lower[k]) })

\* (datetime.now(tz) - pub_date).days: timedelta.days is the floor
days_old(published_at, now) == (now - published_at.hours) \div 24

ViewTerm(v) ==
    IF v.view_count > 0 THEN Rat(Min(v.view_count, 10 * 10000), 10000) ELSE RZero

LikeTerm(v) ==
    IF v.view_count > 0 /\ v.like_count > 0
    THEN Rat(v.like_count * 100, v.view_count) ELSE RZero

ChannelTerm(v) ==
    IF v.channel_name \in Range(ai_channels) THEN Rat(5, 1) ELSE RZero

KeywordTerm(v) == Rat(keyword_matches(v.title) * 2, 1)

\* RecencyTerm with the two-day boundary excluded
RecencyTermStrict(v, now) ==
    IF ~v.published_at.valid THEN RZero
    ELSE IF days_old(v.published_at, now) < 2 THEN Rat(3, 1)
    ELSE IF days_old(v.published_at, now) <= 7 THEN Rat(1, 1)
    ELSE RZero

\* the try block: a timestamp that does not parse adds nothing
RecencyTerm(v, now) ==
    IF ~v.published_at.valid THEN RZero
    ELSE IF days_old(v.published_at, now) <= 2 THEN Rat(3, 1)
    ELSE IF days_old(v.published_at, now) <= 7 THEN Rat(1, 1)
    ELSE RZero

calculate_relevance_score(v, now) ==
    RAdd(RAdd(RAdd(RAdd(ViewTerm(v), LikeTerm(v)), ChannelTerm(v)),
              KeywordTerm(v)), RecencyTerm(v, now))

-----------------------------------------------------------------------------
(* YouTubeAICrawler.search_videos and _parse_video_item *)

None == [none |-> TRUE]

RequiredKeys == { "videoId", "title", "channelTitle", "channelId",
                  "publishedAt", "thumbnail" }

\* a YouTubeVideo; channel_id, description, url and thumbnail_url are set
\* once here, never read by the crawl, and left out of the record
parse_video_item(item) ==
    IF RequiredKeys \subseteq DOMAIN item
    THEN [ video_id        |-> item.videoId,
           title           |-> item.title,
           channel_name    |-> item.channelTitle,
           published_at    |-> item.publishedAt,
           view_count      |-> 0,
           like_count      |-> 0,
           comment_count   |-> 0,
           duration        |-> << >>,
           relevance_score |-> RZero ]
    ELSE None

\* the loop over data.get('items', []): items that do not parse are dropped
ParseItems(items) ==
    LET Parsed(v) == v # None
    IN  SelectSeq([k \in 1..Len(items) |-> parse_video_item(items[k])], Parsed)

\* what requests.get / raise_for_status can do
HttpOutcomes == { "ok", "transport_error", "http_error" }

search_videos_uncaught(outcome, items) ==
    IF outcome = "ok"
    THEN [raised |-> FALSE, videos |-> ParseItems(items)]
    ELSE [raised |-> TRUE, videos |-> << >>]

\* the result of one call: the list returned, or an exception raised
search_videos(outcome, items) ==
    IF outcome = "ok"
    THEN [raised |-> FALSE, videos |-> ParseItems(items)]
    ELSE [raised |-> FALSE, videos |-> << >>]

Ids(vs) == List([k \in 1..Len(vs) |-> vs[k].video_id])

-----------------------------------------------------------------------------
(* The API's answers *)

\* crawl_ai_news: len(search_queries)
NumQueries == 6

\* crawl_ai_news: max_results passed to search_videos
MaxResults == 30

\* get_video_statistics: identifiers per request
BatchSize == 50

\* consecutive queries' full result pages start IdStride identifiers apart,
\* so neighbouring pages overlap
IdStride == 20

FirstId(q) == 1 + IdStride * (q - 1)

\* one item of a search response, as query q sees video id: the snippet of
\* the same video differs between queries
SearchItem(id, q) ==
    [ videoId      |-> id,
      title        |-> Pick(Titles, id + q),
      channelTitle |-> Pick(ChannelNames, id),
      channelId    |-> "UC",
      publishedAt  |-> IF id % 9 = 0 THEN BadTimestamp
                       ELSE Timestamp(Now - Pick(Ages, id)),
      thumbnail    |-> "jpg" ]

\* an item without snippet.channelTitle
BrokenItem(id, q) ==
    [ videoId |-> id, title |-> Pick(Titles, id + q), channelId |-> "UC",
      publishedAt |-> Timestamp(Now), thumbnail |-> "jpg" ]

\* a full page: MaxResults consecutive videos
FullPage(q) == List([k \in 1..MaxResults |-> SearchItem(FirstId(q) + k - 1, q)])

\* a short page: a video, a broken item, a video the next query's full page
\* also holds, and the first video again
ShortPage(q) ==
    << SearchItem(FirstId(q) + 5, q), BrokenItem(FirstId(q) + 6, q),
       SearchItem(FirstId(q) + IdStride + 5, q), SearchItem(FirstId(q) + 5, q + 1) >>

\* the first FullPages queries can return a full page
FullPages == 3

SearchResponses(q) ==
    IF q <= FullPages THEN { FullPage(q), ShortPage(q) } ELSE { ShortPage(q) }

ViewCounts   == << 0, 5000, 100000, 1000000, 20000 >>
LikeCounts   == << 7, 250, 0, 1, 40000 >>
CommentCounts == << 0, 3 >>
Durations ==
    << <<"P","T","4","M","1","3","S">>, <<"P","T","1","H","2","M","3","S">>,
       <<"P","T","0","S">> >>

\* one item of a statistics response
StatsItem(id) ==
    [ id |-> id,
      statistics |-> [ viewCount    |-> Pick(ViewCounts, id),
                       likeCount    |-> Pick(LikeCounts, id),
                       commentCount |-> Pick(CommentCounts, id) ],
      contentDetails |-> [ duration |-> Pick(Durations, id) ] ]

\* an item whose likeCount and duration are withheld
SparseItem(id) ==
    [ id |-> id,
      statistics |-> [ viewCount |-> Pick(ViewCounts, id),
                       commentCount |-> Pick(CommentCounts, id) ],
      contentDetails |-> << >> ]

\* the API answers for every identifier asked, or leaves the first out and
\* answers sparsely for the last
StatsResponses(batch_ids) ==
    { List([k \in 1..Len(batch_ids) |-> StatsItem(batch_ids[k])]),
      List([k \in 1..(Len(batch_ids) - 1) |->
               IF k = Len(batch_ids) - 1 THEN SparseItem(batch_ids[k + 1])
               ELSE StatsItem(batch_ids[k + 1])]) }

\* entries of net
SearchRequest(q, ok, got) ==
    [kind |-> "search", req |-> << q >>, ok |-> ok, got |-> got, ms |-> 0]
StatsRequest(batch_ids, ok, got) ==
    [kind |-> "stats", req |-> batch_ids, ok |-> ok, got |-> got, ms |-> 0]
Sleep(ms) ==
    [kind |-> "sleep", req |-> << >>, ok |-> TRUE, got |-> << >>, ms |-> ms]

-----------------------------------------------------------------------------
(* YouTubeAICrawler.get_video_statistics *)

\* video_stats[video_id] = {...}
StatsEntry(item) ==
    [ view_count    |-> Get(item.statistics, "viewCount", 0),
      like_count    |-> Get(item.statistics, "likeCount", 0),
      comment_count |-> Get(item.statistics, "commentCount", 0),
      duration      |-> Get(item.contentDetails, "duration", <<"P","T","0","S">>) ]

\* the loop over data.get('items', []): each item is stored under its id,
\* the last item of an id overwriting the earlier ones
StoreItems(items, stats) ==
    LET At(id) == { k \in 1..Len(items) : items[k].id = id }
    IN  [id \in DOMAIN stats \cup { items[k].id : k \in 1..Len(items) } |->
            IF At(id) # {} THEN StatsEntry(items[Max(At(id))]) ELSE stats[id]]

Ids_of_items(items) == List([k \in 1..Len(items) |-> items[k].id])

\* Slice with the end of the slice one place too far: video_ids[i:i+51]
SliceOneMore(ids, from, size) ==
    List([k \in 1..Min(size + 1, Len(ids) - from) |-> ids[from + k]])

\* video_ids[i:i+50], i counted from 0
Slice(ids, from, size) ==
    List([k \in 1..Min(size, Len(ids) - from) |-> ids[from + k]])

\* stats_request whose failure ends the loop's work: the exception leaves
\* get_video_statistics
stats_request_uncaught(outcome, batch_ids, items, stats) ==
    IF outcome = "ok"
    THEN [ raised |-> FALSE,
           video_stats |-> StoreItems(items, stats),
           net |-> << StatsRequest(batch_ids, TRUE, Ids_of_items(items)),
                      Sleep(100) >> ]
    ELSE [ raised |-> TRUE,
           video_stats |-> stats,
           net |-> << StatsRequest(batch_ids, FALSE, << >>) >> ]

\* the try block of one iteration: on success the items are stored and the
\* call sleeps; a RequestException is caught and printed
stats_request(outcome, batch_ids, items, stats) ==
    IF outcome = "ok"
    THEN [ raised |-> FALSE,
           video_stats |-> StoreItems(items, stats),
           net |-> << StatsRequest(batch_ids, TRUE, Ids_of_items(items)),
                      Sleep(100) >> ]
    ELSE [ raised |-> FALSE,
           video_stats |-> stats,
           net |-> << StatsRequest(batch_ids, FALSE, << >>) >> ]

\* one iteration of the for loop
StatsBatch ==
    /\ pc = "stats"
    /\ i < Len(video_ids)
    /\ LET batch_ids == Slice(video_ids, i, BatchSize)
       IN  \E outcome \in HttpOutcomes, items \in StatsResponses(batch_ids) :
             LET r == stats_request(outcome, batch_ids, items, video_stats)
             IN  /\ video_stats' = r.video_stats
                 /\ net' = net \o r.net
                 /\ IF r.raised
                    THEN pc' = "raised" /\ i' = i
                    ELSE pc' = pc /\ i' = i + BatchSize
    /\ UNCHANGED << video_ids, crawlVars, score_calls, scoreVars,
                    filterVars, durVars, mailVars >>

\* return video_stats (also the early return for an empty list)
StatsReturn ==
    /\ pc = "stats"
    /\ i >= Len(video_ids)
    /\ pc' = "update"
    /\ UNCHANGED << statsVars, net, crawlVars, score_calls, scoreVars,
                    filterVars, durVars, mailVars >>

-----------------------------------------------------------------------------
(* YouTubeAICrawler.crawl_ai_news *)

\* RemoveDuplicates without the membership test: the dict keeps the place of
\* the first record of an id and the value of the last
RemoveDuplicatesOverwriting(all) ==
    LET indexed == [k \in 1..Len(all) |-> << k, all[k] >>]
        NotYetIn(p) == \A j \in 1..(p[1] - 1) : all[j].video_id # p[2].video_id
        unique_videos == SelectSeq(indexed, NotYetIn)
        LastOf(id) == Max({ k \in 1..Len(all) : all[k].video_id = id })
    IN  [k \in 1..Len(unique_videos) |-> all[LastOf(unique_videos[k][2].video_id)]]

\* for video in all_videos: if video.video_id not in unique_videos: ...
\* A video is stored when no earlier element of all_videos has its id; the
\* dict keeps its values in insertion order.
RemoveDuplicates(all) ==
    LET indexed == [k \in 1..Len(all) |-> << k, all[k] >>]
        NotYetIn(p) == \A j \in 1..(p[1] - 1) : all[j].video_id # p[2].video_id
        unique_videos == SelectSeq(indexed, NotYetIn)
    IN  [k \in 1..Len(unique_videos) |-> unique_videos[k][2]]

\* UpdateVideo with the score taken before the statistics are copied
UpdateVideoScoreFirst(v, stats, now) ==
    LET s == calculate_relevance_score(v, now)
        w == IF v.video_id \in DOMAIN stats
             THEN [v EXCEPT !.view_count    = stats[v.video_id].view_count,
                            !.like_count    = stats[v.video_id].like_count,
                            !.comment_count = stats[v.video_id].comment_count,
                            !.duration      = stats[v.video_id].duration]
             ELSE v
    IN  [w EXCEPT !.relevance_score = s]

\* the body of the last loop: copy the statistics, then score
UpdateVideo(v, stats, now) ==
    LET w == IF v.video_id \in DOMAIN stats
             THEN [v EXCEPT !.view_count    = stats[v.video_id].view_count,
                            !.like_count    = stats[v.video_id].like_count,
                            !.comment_count = stats[v.video_id].comment_count,
                            !.duration      = stats[v.video_id].duration]
             ELSE v
    IN  [w EXCEPT !.relevance_score = calculate_relevance_score(w, now)]

\* one iteration of the loop over search_queries: the search, extend, sleep(1)
SearchQuery ==
    /\ pc = "search"
    /\ \E outcome \in HttpOutcomes, items \in SearchResponses(qi) :
         LET r == search_videos(outcome, items)
         IN  IF r.raised
             THEN /\ pc' = "raised"
                  /\ net' = Append(net, SearchRequest(qi, FALSE, << >>))
                  /\ UNCHANGED << qi, all_videos >>
             ELSE /\ all_videos' = all_videos \o r.videos
                  /\ net' = net \o << SearchRequest(qi, outcome = "ok", Ids(r.videos)),
                                      Sleep(1000) >>
                  /\ qi' = qi + 1
                  /\ pc' = IF qi = NumQueries THEN "dedup" ELSE "search"
    /\ UNCHANGED << video_list, statsVars, score_calls, scoreVars, filterVars,
                    durVars, mailVars >>

\* lines 184-194: unique_videos, video_list, video_ids, and the call of
\* get_video_statistics
Deduplicate ==
    /\ pc = "dedup"
    /\ video_list' = RemoveDuplicates(all_videos)
    /\ video_ids' = Ids(video_list')
    /\ i' = 0
    /\ video_stats' = << >>
    /\ pc' = "stats"
    /\ UNCHANGED << qi, all_videos, net, score_calls, scoreVars, filterVars,
                    durVars, mailVars >>

\* lines 196-207: the loop over video_list, and the return
UpdateAndScore ==
    /\ pc = "update"
    /\ video_list' = [k \in 1..Len(video_list) |->
                         UpdateVideo(video_list[k], video_stats, Now)]
    /\ score_calls' = score_calls \o Ids(video_list)
    /\ pc' = "done"
    /\ UNCHANGED << qi, all_videos, statsVars, net, scoreVars, filterVars,
                    durVars, mailVars >>

\* values of the variables a specification does not use
NoVideo == [ video_id |-> 0, title |-> << >>, channel_name |-> "",
             published_at |-> BadTimestamp, view_count |-> 0, like_count |-> 0,
             comment_count |-> 0, duration |-> << >>, relevance_score |-> RZero ]

IdleCrawl  == qi = 1 /\ all_videos = << >> /\ video_list = << >>
IdleStats  == video_ids = << >> /\ i = 0 /\ video_stats = << >>
IdleScore  == video = NoVideo /\ score = RZero
IdleFilter == videos = << >> /\ count = 0 /\ top_videos = << >>
IdleDur    == duration = << >> /\ readable = << >>
IdleMail   == /\ publisher = [smtp_server |-> "", email_user |-> "",
                              email_password |-> ""]
              /\ recipients = 0 /\ smtp = << >> /\ email_result = "none"

\* a run of crawl_ai_news
Init ==
    /\ pc = "search"
    /\ IdleCrawl /\ IdleStats /\ IdleScore /\ IdleFilter /\ IdleDur /\ IdleMail
    /\ net = << >>
    /\ score_calls = << >>

Next == SearchQuery \/ Deduplicate \/ StatsBatch \/ StatsReturn \/ UpdateAndScore

Spec == Init /\ [][Next]_vars

\* a call of get_video_statistics on its own, for a list of n identifiers
MaxIds == 120

InitStats ==
    /\ pc = "stats"
    /\ \E n \in 0..MaxIds : video_ids = List([k \in 1..n |-> k])
    /\ i = 0
    /\ video_stats = << >>
    /\ net = << >>
    /\ score_calls = << >>
    /\ IdleCrawl /\ IdleScore /\ IdleFilter /\ IdleDur /\ IdleMail

NextStats == StatsBatch \/ StatsReturn

SpecStats == InitStats /\ [][NextStats]_vars

-----------------------------------------------------------------------------
(* Properties of the crawl *)

Requests(kind) == SelectSeq(net, LAMBDA e : e.kind = kind)

AfterDedup == pc \in { "stats", "update", "done" }

\* the index in all_videos of the first record that carries id
FirstSeen(id) ==
    CHOOSE k \in 1..Len(all_videos) :
        /\ all_videos[k].video_id = id
        /\ \A j \in 1..(k - 1) : all_videos[j].video_id # id

Descriptive(v) == << v.video_id, v.title, v.channel_name, v.published_at >>

\* C1: the de-duplication step yields exactly one record per distinct video
\* identifier of the gathered records, as many records as there are distinct
\* identifiers, and for each identifier the first record seen.
C1_Dedup ==
    AfterDedup =>
        /\ \A j, k \in 1..Len(video_list) :
              video_list[j].video_id = video_list[k].video_id => j = k
        /\ Len(video_list) = Cardinality(Range(Ids(all_videos)))
        /\ Range(Ids(video_list)) = Range(Ids(all_videos))
        /\ \A k \in 1..Len(video_list) :
              LET first == all_videos[FirstSeen(video_list[k].video_id)]
              IN  /\ Descriptive(video_list[k]) = Descriptive(first)
                  /\ pc # "done" => video_list[k] = first

\* C1's case: a later copy of a video differs from the first one, and the
\* de-duplication has run
C1_Witness ==
    /\ pc = "stats"
    /\ Len(video_list) < Len(all_videos)
    /\ \E j, k \in 1..Len(all_videos) :
          /\ j < k
          /\ all_videos[j].video_id = all_videos[k].video_id
          /\ all_videos[j].title # all_videos[k].title

Count(s, x) == Cardinality({ k \in 1..Len(s) : s[k] = x })

\* how often id is put in a statistics request
TimesRequested(id) ==
    LET reqs == Requests("stats")
    IN  Cardinality({ << r, k >> \in (1..Len(reqs)) \X (1..BatchSize) :
                         k <= Len(reqs[r].req) /\ reqs[r].req[k] = id })

Zeroed(v) == v.view_count = 0 /\ v.like_count = 0 /\ v.comment_count = 0

\* C2: the stages run in the order search, de-duplication, statistics,
\* scoring.  No statistics request is issued before all search queries and
\* the de-duplication are done; each distinct identifier is sent in exactly
\* one statistics request; each record is scored exactly once, after its
\* metrics are written (or left at zero when no statistics came back).
C2_StageOrder ==
    /\ Requests("stats") # << >> =>
          /\ AfterDedup
          /\ Len(Requests("search")) = NumQueries
          /\ \A a, b \in 1..Len(net) :
                net[a].kind = "stats" /\ net[b].kind = "search" => b < a
    /\ \A id \in Range(Ids(all_videos)) : TimesRequested(id) <= 1
    /\ pc \in { "update", "done" } =>
          \A id \in Range(Ids(all_videos)) : TimesRequested(id) = 1
    /\ score_calls # << >> => pc = "done"
    /\ pc = "done" =>
          /\ \A k \in 1..Len(video_list) :
                LET v == video_list[k]
                IN  /\ Count(score_calls, v.video_id) = 1
                    /\ v.relevance_score = calculate_relevance_score(v, Now)
                    /\ IF v.video_id \in DOMAIN video_stats
                       THEN /\ v.view_count = video_stats[v.video_id].view_count
                            /\ v.like_count = video_stats[v.video_id].like_count
                            /\ v.comment_count = video_stats[v.video_id].comment_count
                            /\ v.duration = video_stats[v.video_id].duration
                       ELSE Zeroed(v) /\ v.duration = << >>
          /\ Len(score_calls) = Len(video_list)

\* C2's case: a finished crawl that gathered a video twice, needed two
\* statistics requests and scored a video from its metrics
C2_Witness ==
    /\ pc = "done"
    /\ Len(video_list) < Len(all_videos)
    /\ Len(Requests("stats")) = 2
    /\ \E k \in 1..Len(video_list) :
          /\ video_list[k].view_count > 0
          /\ video_list[k].relevance_score #
                calculate_relevance_score([video_list[k] EXCEPT
                    !.view_count = 0, !.like_count = 0], Now)

\* C3: search_videos never raises; a failed query returns an empty list and
\* does not abort the crawl: every query is still issued, and the records of
\* the successful queries are all in the crawl's result.
C3_SearchFailSoft ==
    /\ pc # "raised"
    /\ LET searches == Requests("search")
       IN  /\ Len(searches) = qi - 1
           /\ \A k \in 1..Len(searches) :
                 /\ searches[k].req = << k >>
                 /\ ~searches[k].ok => searches[k].got = << >>
           /\ pc # "search" => Len(searches) = NumQueries
           /\ pc = "done" =>
                 \A k \in 1..Len(searches) :
                    Range(searches[k].got) \subseteq Range(Ids(video_list))

\* C3's case: a finished crawl in which a query failed and a later query
\* succeeded with records
C3_Witness ==
    /\ pc = "done"
    /\ \E j, k \in 1..Len(net) :
          /\ j < k
          /\ net[j].kind = "search" /\ ~net[j].ok
          /\ net[k].kind = "search" /\ net[k].ok /\ net[k].got # << >>

\* C5: a failed statistics request is isolated to its chunk.  The call does
\* not raise, the failed chunk's identifiers are absent from the map, the
\* later chunks are still requested and what the successful chunks returned
\* is in the map; in the crawl the failed chunk's videos keep zero counts and
\* are still scored and returned.
C5_ChunkFailureIsolated ==
    LET reqs == Requests("stats")
    IN  /\ pc # "raised"
        /\ \A r \in 1..Len(reqs) :
              IF reqs[r].ok
              THEN Range(reqs[r].got) \subseteq DOMAIN video_stats
              ELSE Range(reqs[r].req) \cap DOMAIN video_stats = {}
        /\ pc \in { "update", "done" } =>
              Range(video_ids) = UNION { Range(reqs[r].req) : r \in 1..Len(reqs) }
        /\ pc = "done" =>
              \A r \in 1..Len(reqs) :
                 ~reqs[r].ok =>
                    \A id \in Range(reqs[r].req) :
                       /\ Count(score_calls, id) = 1
                       /\ \E k \in 1..Len(video_list) :
                             /\ video_list[k].video_id = id
                             /\ Zeroed(video_list[k])

\* C5's case: the first of two chunk requests failed, the second succeeded,
\* and the crawl finished
C5_Witness ==
    /\ pc = "done"
    /\ LET reqs == Requests("stats")
       IN  /\ Len(reqs) = 2
           /\ ~reqs[1].ok
           /\ reqs[2].ok /\ reqs[2].got # << >>

\* C10: between any two consecutive outbound API requests of a crawl there
\* is a blocking pause: after each search query and after each statistics
\* request, whether that request succeeded or failed.
C10_PauseBetweenRequests ==
    \A k \in 1..(Len(net) - 1) :
        net[k].kind # "sleep" => net[k + 1].kind = "sleep"

-----------------------------------------------------------------------------
(* Properties of get_video_statistics *)

\* ceil(n / BatchSize)
Chunks(n) == (n + BatchSize - 1) \div BatchSize

\* C4: get_video_statistics cuts its n identifiers, in order, into
\* consecutive chunks of at most 50 and issues one request per chunk:
\* ceil(n/50) requests (none for an empty list), every chunk but the last of
\* exactly 50, every identifier in exactly one request; 120 identifiers give
\* requests of 50, 50 and 20.
C4_Chunking ==
    LET reqs == Requests("stats")
        n == Len(video_ids)
    IN  /\ \A r \in 1..Len(reqs) :
              /\ Len(reqs[r].req) = Min(BatchSize, n - BatchSize * (r - 1))
              /\ Len(reqs[r].req) >= 1
              /\ \A k \in 1..Len(reqs[r].req) :
                    reqs[r].req[k] = video_ids[BatchSize * (r - 1) + k]
        /\ Len(reqs) <= Chunks(n)
        /\ pc = "update" =>
              /\ Len(reqs) = Chunks(n)
              /\ \A id \in Range(video_ids) : TimesRequested(id) = 1
              /\ n = 120 => /\ Len(reqs) = 3
                            /\ Len(reqs[1].req) = 50
                            /\ Len(reqs[2].req) = 50
                            /\ Len(reqs[3].req) = 20

\* C4's case: the call on 120 identifiers has returned after requests of 50,
\* 50 and 20 identifiers
C4_Witness ==
    /\ pc = "update"
    /\ Len(video_ids) = 120
    /\ LET reqs == Requests("stats")
       IN  [r \in 1..Len(reqs) |-> Len(reqs[r].req)] = << 50, 50, 20 >>

-----------------------------------------------------------------------------
(* A call of _calculate_relevance_score on its own *)

\* the hours by which the publish time can be ahead of now
MaxAhead == 1

ScoreViews == { 0, 5000, 12500, 100000, 1000000 }
ScoreLikes == { 0, 1, 250, 40000 }
ScoreAges  == Range(Ages) \cup { 48, 168 } \cup { -h : h \in 0..MaxAhead }

ScoreInputs ==
    { [ video_id |-> 1, title |-> t, channel_name |-> c, published_at |-> p,
        view_count |-> v, like_count |-> l, comment_count |-> 0,
        duration |-> << >>, relevance_score |-> RZero ] :
        t \in Range(Titles), c \in Range(ChannelNames),
        p \in { Timestamp(Now - a) : a \in ScoreAges } \cup { BadTimestamp },
        v \in ScoreViews, l \in ScoreLikes }

InitScore ==
    /\ pc = "score"
    /\ video \in ScoreInputs
    /\ score = RZero
    /\ net = << >>
    /\ score_calls = << >>
    /\ IdleCrawl /\ IdleStats /\ IdleFilter /\ IdleDur /\ IdleMail

CalculateScore ==
    /\ pc = "score"
    /\ score' = calculate_relevance_score(video, Now)
    /\ score_calls' = Append(score_calls, video.video_id)
    /\ pc' = "scored"
    /\ UNCHANGED << video, net, crawlVars, statsVars, filterVars, durVars, mailVars >>

NextScore == CalculateScore

SpecScore == InitScore /\ [][NextScore]_vars

\* the number of keywords (lower-cased) found in each title of Titles
\* (lower-cased), counted by hand
TitleKeywords == << 3, 2, 0, 1, 1, 3 >>

KeywordsIn(title) ==
    TitleKeywords[CHOOSE k \in 1..Len(Titles) : Titles[k] = title]

\* age in whole days
AgeDays(v) == (Now - v.published_at.hours) \div 24

\* the five terms as the claim states them
StatedScore(v) ==
    LET views   == IF v.view_count >= 100000 THEN Rat(10, 1)
                   ELSE Rat(v.view_count, 10000)
        likes   == IF v.view_count > 0 /\ v.like_count > 0
                   THEN Rat(100 * v.like_count, v.view_count) ELSE RZero
        channel == IF \E k \in 1..Len(ai_channels) : ai_channels[k] = v.channel_name
                   THEN 5 ELSE 0
        words   == 2 * KeywordsIn(v.title)
        recency == IF ~v.published_at.valid THEN 0
                   ELSE IF AgeDays(v) <= 2 THEN 3
                   ELSE IF AgeDays(v) <= 7 THEN 1 ELSE 0
    IN  RAdd(RAdd(views, likes), Rat(channel + words + recency, 1))

\* C6: _calculate_relevance_score returns the unclamped sum of the view term
\* min(viewCount/10000, 10), the like-ratio term (likeCount/viewCount)*100
\* when both counts are positive, +5 for an allow-listed channel, +2 per
\* keyword contained in the lower-cased title and the recency term (+3 up to
\* 2 whole days, +1 up to 7, 0 beyond or when the timestamp does not parse);
\* 100000 views, no likes, an unlisted channel, no keyword and a publish time
\* of now score exactly 13.
C6_Score ==
    pc = "scored" =>
        /\ score = StatedScore(video)
        /\ ( /\ video.view_count = 100000 /\ video.like_count = 0
             /\ video.channel_name = "Some Vlog"
             /\ video.title = Titles[3]
             /\ video.published_at = Timestamp(Now) ) => score = Rat(13, 1)
        /\ ( /\ video.view_count = 1000000 /\ video.like_count = 0
             /\ video.channel_name = "Some Vlog"
             /\ video.title = Titles[3]
             /\ ~video.published_at.valid ) => score = Rat(10, 1)

\* C6's case: the scored record of the claim's example
C6_Witness ==
    /\ pc = "scored"
    /\ video.view_count = 100000 /\ video.like_count = 0
    /\ video.channel_name = "Some Vlog"
    /\ video.title = Titles[3]
    /\ video.published_at = Timestamp(Now)
    /\ score = Rat(13, 1)

-----------------------------------------------------------------------------
(* YouTubeAICrawler.filter_top_videos *)

Reverse(s) == List([k \in 1..Len(s) |-> s[Len(s) + 1 - k]])

\* a stable ascending sort by relevance_score: a record goes behind the
\* records with a smaller score and the earlier records with an equal score
StableSort(s) ==
    LET Place(k) ==
            1 + Cardinality({ j \in 1..Len(s) :
                    \/ RLess(s[j].relevance_score, s[k].relevance_score)
                    \/ j < k /\ s[j].relevance_score = s[k].relevance_score })
    IN  List([p \in 1..Len(s) |-> s[CHOOSE k \in 1..Len(s) : Place(k) = p]])

\* sorted(..., reverse=True) turned into an ascending sort read backwards
SortedReverseNaive(s) == Reverse(StableSort(s))

\* sorted(videos, key=lambda x: x.relevance_score, reverse=True): list.sort
\* reverses the list, sorts it stably and reverses it again, which keeps
\* equal scores in their input order
SortedReverse(s) == Reverse(StableSort(Reverse(s)))

\* sorted_videos[:count], count >= 0
Prefix(s, n) == List([k \in 1..Min(n, Len(s)) |-> s[k]])

filter_top_videos(vs, n) == Prefix(SortedReverse(vs), n)

MaxVideos == 4
MaxCount == 5

FilterScores == { Rat(3, 1), Rat(19, 2), Rat(6, 5) }

\* lists of scored records; a record's video_id is its place in the list
FilterInputs ==
    UNION { { List([k \in 1..n |-> [NoVideo EXCEPT !.video_id = k,
                                                  !.relevance_score = f[k]]]) :
                f \in [1..n -> FilterScores] } : n \in 0..MaxVideos }

InitFilter ==
    /\ pc = "filter"
    /\ videos \in FilterInputs
    /\ count \in 0..MaxCount
    /\ top_videos = << >>
    /\ net = << >>
    /\ score_calls = << >>
    /\ IdleCrawl /\ IdleStats /\ IdleScore /\ IdleDur /\ IdleMail

FilterTopVideos ==
    /\ pc = "filter"
    /\ top_videos' = filter_top_videos(videos, count)
    /\ pc' = "filtered"
    /\ UNCHANGED << videos, count, net, score_calls, crawlVars, statsVars,
                    scoreVars, durVars, mailVars >>

NextFilter == FilterTopVideos

SpecFilter == InitFilter /\ [][NextFilter]_vars

\* C7: filter_top_videos(records, n), n >= 0, returns the first
\* min(n, len(records)) records of a stable descending sort by score: scores
\* do not increase along the result, equal scores keep their input order,
\* no record left out outscores a returned one, and the input list is left
\* as it was; scores [3.0, 9.5, 1.2] for [A, B, C] and n = 2 give [B, A].
C7_TopN ==
    pc = "filtered" =>
        LET kept == { top_videos[k].video_id : k \in 1..Len(top_videos) }
        IN  /\ Len(top_videos) = Min(count, Len(videos))
            /\ Cardinality(kept) = Len(top_videos)
            /\ \A k \in 1..Len(top_videos) :
                  /\ top_videos[k].video_id \in 1..Len(videos)
                  /\ top_videos[k] = videos[top_videos[k].video_id]
            /\ \A j, k \in 1..Len(top_videos) :
                  j < k =>
                     /\ ~RLess(top_videos[j].relevance_score,
                               top_videos[k].relevance_score)
                     /\ top_videos[j].relevance_score = top_videos[k].relevance_score
                           => top_videos[j].video_id < top_videos[k].video_id
            /\ \A k \in 1..Len(top_videos), w \in (1..Len(videos)) \ kept :
                  /\ ~RLess(top_videos[k].relevance_score, videos[w].relevance_score)
                  /\ top_videos[k].relevance_score = videos[w].relevance_score
                        => top_videos[k].video_id < w
            /\ \A k \in 1..Len(videos) : videos[k].video_id = k
            /\ ( /\ count = 2
                 /\ [k \in 1..Len(videos) |-> videos[k].relevance_score]
                       = << Rat(3, 1), Rat(19, 2), Rat(6, 5) >> )
                  => [k \in 1..Len(top_videos) |-> top_videos[k].video_id] = << 2, 1 >>

\* C7's case: a list with two equal scores, cut short by the count, with
\* both of the equal records returned
C7_Witness ==
    /\ pc = "filtered"
    /\ 0 < Len(top_videos) /\ Len(top_videos) < Len(videos)
    /\ \E j, k \in 1..Len(top_videos) :
          j < k /\ top_videos[j].relevance_score = top_videos[k].relevance_score

-----------------------------------------------------------------------------
(* WeeklyPublisher._parse_duration *)

Digits == { "0", "1", "2", "3", "4", "5", "6", "7", "8", "9" }

\* \d+ at place p: the length of the longest run of digits that starts there
DigitRun(s, p) ==
    Max({ n \in 0..(Len(s) - p + 1) : \A k \in 0..(n - 1) : s[p + k] \in Digits })

\* (?:(\d+)X)? at place p: the digits and the place behind the unit letter,
\* or no match and the same place.  A shorter run of digits is followed by
\* a digit, so only the longest run can be followed by the unit.
Group(s, p, unit) ==
    LET n == DigitRun(s, p)
    IN  IF n >= 1 /\ p + n <= Len(s) /\ s[p + n] = unit
        THEN [found |-> TRUE, text |-> SubSeq(s, p, p + n - 1), next |-> p + n + 1]
        ELSE [found |-> FALSE, text |-> << >>, next |-> p]

Unknown == << "U", "n", "k", "n", "o", "w", "n" >>
PT0S == << "P", "T", "0", "S" >>

\* " ".join(parts)
Join(parts) ==
    IF Len(parts) = 0 THEN << >>
    ELSE IF Len(parts) = 1 THEN parts[1]
    ELSE IF Len(parts) = 2 THEN parts[1] \o << " " >> \o parts[2]
    ELSE parts[1] \o << " " >> \o parts[2] \o << " " >> \o parts[3]

IsZero(text) == \A k \in 1..Len(text) : text[k] = "0"

\* _parse_duration with a part appended only for a non-zero number
parse_duration_nonzero(d) ==
    IF d = << >> \/ d = PT0S THEN Unknown
    ELSE IF ~(Len(d) >= 2 /\ d[1] = "P" /\ d[2] = "T") THEN d
    ELSE LET hours   == Group(d, 3, "H")
             minutes == Group(d, hours.next, "M")
             seconds == Group(d, minutes.next, "S")
             parts ==
                (IF hours.found /\ ~IsZero(hours.text)
                    THEN << hours.text \o << "h" >> >> ELSE << >>)
                \o (IF minutes.found /\ ~IsZero(minutes.text)
                    THEN << minutes.text \o << "m" >> >> ELSE << >>)
                \o (IF seconds.found /\ ~IsZero(seconds.text)
                    THEN << seconds.text \o << "s" >> >> ELSE << >>)
         IN  IF parts # << >> THEN Join(parts) ELSE << "0", "s" >>

\* re.match anchors at the start only; a group that matched is a non-empty
\* string, which is true whatever its digits
parse_duration(d) ==
    IF d = << >> \/ d = PT0S THEN Unknown
    ELSE IF ~(Len(d) >= 2 /\ d[1] = "P" /\ d[2] = "T") THEN d
    ELSE LET hours   == Group(d, 3, "H")
             minutes == Group(d, hours.next, "M")
             seconds == Group(d, minutes.next, "S")
             parts ==
                (IF hours.found THEN << hours.text \o << "h" >> >> ELSE << >>)
                \o (IF minutes.found THEN << minutes.text \o << "m" >> >> ELSE << >>)
                \o (IF seconds.found THEN << seconds.text \o << "s" >> >> ELSE << >>)
         IN  IF parts # << >> THEN Join(parts) ELSE << "0", "s" >>

\* the numbers a component of a period can be written as; << >> is a
\* component that is not written
Numbers == { << >>, << "0" >>, << "1" >>, << "2" >>, << "3" >>, << "4" >>,
             << "1", "3" >>, << "4", "5" >>, << "1", "0" >> }

Component(text, unit) == IF text = << >> THEN << >> ELSE text \o << unit >>

\* PT[h]H[m]M[s]S
Period(h, m, s) ==
    << "P", "T" >> \o Component(h, "H") \o Component(m, "M") \o Component(s, "S")

\* strings that are no such period
OtherDurations ==
    { << >>, << "P", "1", "D" >>, << "P", "T", "5" >>,
      << "P", "T", "5", "S", "3", "M" >>, << "T", "5", "M" >> }

InitDuration ==
    /\ pc = "parse"
    /\ duration \in { Period(h, m, s) : h, m, s \in Numbers } \cup OtherDurations
    /\ readable = << >>
    /\ net = << >>
    /\ score_calls = << >>
    /\ IdleCrawl /\ IdleStats /\ IdleScore /\ IdleFilter /\ IdleMail

ParseDuration ==
    /\ pc = "parse"
    /\ readable' = parse_duration(duration)
    /\ pc' = "parsed"
    /\ UNCHANGED << duration, net, score_calls, crawlVars, statsVars, scoreVars,
                    filterVars, mailVars >>

NextDuration == ParseDuration

SpecDuration == InitDuration /\ [][NextDuration]_vars

\* a component as the result shows it
Shown(text, letter) == IF text = << >> THEN << >> ELSE << text \o << letter >> >>

\* C9 as stated: _parse_duration maps PT[h]H[m]M[s]S to an 'Xh Ym Zs' string
\* that omits every zero component, yields "0s" if all components are zero,
\* and "Unknown" for the empty string and for "PT0S".
C9_AsStated ==
    pc = "parsed" =>
        /\ duration = << >> => readable = Unknown
        /\ \A h, m, s \in Numbers :
              duration = Period(h, m, s) =>
                 readable =
                    IF duration = PT0S THEN Unknown
                    ELSE IF IsZero(h) /\ IsZero(m) /\ IsZero(s) THEN << "0", "s" >>
                    ELSE Join(Shown(IF IsZero(h) THEN << >> ELSE h, "h")
                              \o Shown(IF IsZero(m) THEN << >> ELSE m, "m")
                              \o Shown(IF IsZero(s) THEN << >> ELSE s, "s"))

\* C9, amended: _parse_duration maps PT[h]H[m]M[s]S to the components that
\* are written in it, each with its digits as written and the letter h, m or
\* s, joined by single spaces; a component written as 0 is kept
\* ("PT1H0M3S" -> "1h 0m 3s"); the result is "0s" only if no component is
\* written ("PT"), and "Unknown" for the empty string and for "PT0S";
\* "PT1H2M3S" -> "1h 2m 3s" and "PT45S" -> "45s".
C9_WrittenComponents ==
    pc = "parsed" =>
        /\ duration = << >> => readable = Unknown
        /\ \A h, m, s \in Numbers :
              duration = Period(h, m, s) =>
                 readable =
                    IF duration = PT0S THEN Unknown
                    ELSE IF h = << >> /\ m = << >> /\ s = << >> THEN << "0", "s" >>
                    ELSE Join(Shown(h, "h") \o Shown(m, "m") \o Shown(s, "s"))
        /\ duration = << "P", "T", "1", "H", "2", "M", "3", "S" >> =>
              readable = << "1", "h", " ", "2", "m", " ", "3", "s" >>
        /\ duration = << "P", "T", "4", "5", "S" >> => readable = << "4", "5", "s" >>
        /\ duration = << "P", "T", "1", "H", "0", "M", "3", "S" >> =>
              readable = << "1", "h", " ", "0", "m", " ", "3", "s" >>
        /\ duration = << "P", "T" >> => readable = << "0", "s" >>

\* C9's case: a period with a component written as zero has been formatted
C9_Witness ==
    /\ pc = "parsed"
    /\ duration = << "P", "T", "1", "H", "0", "M", "3", "S" >>
    /\ readable = << "1", "h", " ", "0", "m", " ", "3", "s" >>

-----------------------------------------------------------------------------
(* WeeklyPublisher.send_email_report *)

\* Python's None
NoneValue == "<None>"

\* bool(x) of None or a string
Truthy(x) == x # NoneValue /\ x # ""

\* the calls made on the SMTP session, in order
SmtpCalls == << "connect", "starttls", "login", "send_message" >>

\* where the session can fail: at one of its calls, or nowhere (0)
SmtpFailures == 0..Len(SmtpCalls)

\* the calls attempted when the call at place fail_at raises
Attempted(fail_at) ==
    [k \in 1..(IF fail_at = 0 THEN Len(SmtpCalls) ELSE fail_at) |->
        [call |-> SmtpCalls[k], ok |-> k # fail_at]]

\* send_email_report with `any` in place of `all` in its first test
send_email_report_any(p, fail_at) ==
    IF ~(Truthy(p.smtp_server) \/ Truthy(p.email_user) \/ Truthy(p.email_password))
    THEN [raised |-> FALSE, result |-> "False", smtp |-> << >>]
    ELSE IF fail_at = 0
    THEN [raised |-> FALSE, result |-> "True", smtp |-> Attempted(fail_at)]
    ELSE [raised |-> FALSE, result |-> "False", smtp |-> Attempted(fail_at)]

\* the result of one call: what it returns (or that it raised) and the calls
\* it made on the SMTP session; `except Exception` catches what they raise
send_email_report(p, fail_at) ==
    IF ~(Truthy(p.smtp_server) /\ Truthy(p.email_user) /\ Truthy(p.email_password))
    THEN [raised |-> FALSE, result |-> "False", smtp |-> << >>]
    ELSE IF fail_at = 0
    THEN [raised |-> FALSE, result |-> "True", smtp |-> Attempted(fail_at)]
    ELSE [raised |-> FALSE, result |-> "False", smtp |-> Attempted(fail_at)]

MaxRecipients == 2

ConfigValues == { NoneValue, "", "configured" }

InitEmail ==
    /\ pc = "send"
    /\ publisher \in [ smtp_server : ConfigValues, email_user : ConfigValues,
                       email_password : ConfigValues ]
    /\ recipients \in 0..MaxRecipients
    /\ smtp = << >>
    /\ email_result = "none"
    /\ net = << >>
    /\ score_calls = << >>
    /\ IdleCrawl /\ IdleStats /\ IdleScore /\ IdleFilter /\ IdleDur

SendEmailReport ==
    /\ pc = "send"
    /\ \E fail_at \in SmtpFailures :
          LET r == send_email_report(publisher, fail_at)
          IN  /\ smtp' = r.smtp
              /\ email_result' = r.result
              /\ pc' = IF r.raised THEN "raised" ELSE "sent"
    /\ UNCHANGED << publisher, recipients, net, score_calls, crawlVars,
                    statsVars, scoreVars, filterVars, durVars >>

NextEmail == SendEmailReport

SpecEmail == InitEmail /\ [][NextEmail]_vars

Configured ==
    /\ publisher.smtp_server \notin { NoneValue, "" }
    /\ publisher.email_user \notin { NoneValue, "" }
    /\ publisher.email_password \notin { NoneValue, "" }

\* C8: with any one of smtp_server, email_user, email_password unset,
\* send_email_report returns false and makes no network call (no session, no
\* login, no message); with all three set, a failure while connecting,
\* authenticating or submitting is caught and reported as false, not raised.
C8_EmailGating ==
    /\ pc # "raised"
    /\ pc = "sent" =>
          /\ ~Configured => email_result = "False" /\ smtp = << >>
          /\ Configured =>
                /\ email_result \in { "True", "False" }
                /\ (\E k \in 1..Len(smtp) : ~smtp[k].ok) => email_result = "False"

\* C8's case: a call with exactly one setting unset has returned
C8_Witness ==
    /\ pc = "sent"
    /\ publisher.smtp_server = "configured"
    /\ publisher.email_user = "configured"
    /\ publisher.email_password = NoneValue
    /\ recipients > 0
    /\ email_result = "False"

=============================================================================
